---- MODULE Spec2Model ----
(***************************************************************************)
(* The B+tree leaf node of concread (src/collections/bptree/leaf.rs):      *)
(* a fixed-capacity sorted slot array of key/value pairs, with the         *)
(* insert/remove outcome protocol (Ok / Split / Shrink) it offers to its   *)
(* parent.                                                                 *)
(*                                                                         *)
(* A slot of type MaybeUninit<T> is a set of at most one element: {} is an *)
(* uninitialised slot, {x} a slot holding x.  Option<T> is modelled the    *)
(* same way: None is {}, Some(x) is {x}.  Arrays are indexed from 0.       *)
(***************************************************************************)
EXTENDS Integers, Sequences, FiniteSets, TLC

\* Model bounds: leaf capacity, largest key, largest value.
L_CAPACITY == 3
MaxKey == 3
MaxVal == 1

L_MAX_IDX == L_CAPACITY - 1

Keys == 0..MaxKey
Vals == 0..MaxVal
Slots == 0..(L_CAPACITY - 1)

VARIABLES count,   \* Leaf.count
          key,     \* Leaf.key   : [MaybeUninit<K>; L_CAPACITY]
          value,   \* Leaf.value : [MaybeUninit<V>; L_CAPACITY]
          call,    \* the last call made on the leaf: operation and arguments
          ret,     \* the outcome that call returned
          old,     \* the leaf as it was when that call was made
          map,     \* reference: the ordered map the leaf is to agree with
          calls,   \* the slice_insert / slice_remove calls the last call made
          peer,    \* a second leaf: the clone of this one, or the one it was cloned from
          own      \* where every key object and value object is

vars == <<count, key, value, call, ret, old, map, calls, peer, own>>

----------------------------------------------------------------------------
\* MaybeUninit / Option

Uninit == {}
None == {}
Some(x) == {x}
MaybeUninit_new(x) == {x}
\* Reading a slot as initialised; undefined on an uninitialised slot.
assume_init(slot) == CHOOSE x \in slot : TRUE

\* BLInsertState<K, V>
InsertOk(prev) == [tag |-> "Ok", k |-> None, v |-> prev]
Split(k, v) == [tag |-> "Split", k |-> Some(k), v |-> Some(v)]

\* BLRemoveState<V>
RemoveOk(pv) == [tag |-> "Ok", k |-> None, v |-> pv]
Shrink(pv) == [tag |-> "Shrink", k |-> None, v |-> pv]

NoRet == [tag |-> "None", k |-> None, v |-> None]

LeafOf(c, ks, vs) == [count |-> c, key |-> ks, value |-> vs]

----------------------------------------------------------------------------
\* Slot-array utilities (utils.rs): they see the whole arena, the caller
\* tracks the live count.

\* Move [idx, len-1) one position toward the tail, then place new at idx.
slice_insert(slice, new, idx) ==
    [i \in Slots |-> IF i < idx THEN slice[i]
                     ELSE IF i = idx THEN new
                     ELSE slice[i - 1]]

\* Take the element at idx out and close the gap; the vacated last slot holds
\* no live value afterwards.
slice_remove(slice, idx) ==
    [elem |-> slice[idx],
     slice |-> [i \in Slots |-> IF i < idx THEN slice[i]
                                ELSE IF i < L_CAPACITY - 1 THEN slice[i + 1]
                                ELSE Uninit]]

----------------------------------------------------------------------------
\* slice::binary_search over the live prefix inited = key[0..n)

SearchOk(i) == [found |-> TRUE, idx |-> i]
SearchErr(i) == [found |-> FALSE, idx |-> i]

RECURSIVE binary_search_loop(_, _, _, _)
binary_search_loop(inited, k, base, size) ==
    IF size > 1
    THEN LET half == size \div 2
             mid == base + half
             elem == assume_init(inited[mid])
         IN  binary_search_loop(inited, k,
                                IF elem > k THEN base ELSE mid,
                                size - half)
    ELSE base

\* Off by one: the insertion point is not moved past a smaller element.
binary_search_no_step(inited, n, k) ==
    IF n = 0
    THEN SearchErr(0)
    ELSE LET base == binary_search_loop(inited, k, 0, n)
             elem == assume_init(inited[base])
         IN  IF elem = k THEN SearchOk(base) ELSE SearchErr(base)

binary_search(inited, n, k) ==
    IF n = 0
    THEN SearchErr(0)
    ELSE LET base == binary_search_loop(inited, k, 0, n)
             elem == assume_init(inited[base])
         IN  IF elem = k
             THEN SearchOk(base)
             ELSE SearchErr(base + (IF elem < k THEN 1 ELSE 0))

----------------------------------------------------------------------------
\* Leaf::get_idx: linear scan of the live prefix, first match wins.

RECURSIVE get_idx_from(_, _)
get_idx_from(idx, k) ==
    IF idx >= count
    THEN None
    ELSE IF assume_init(key[idx]) = k
         THEN Some(idx)
         ELSE get_idx_from(idx + 1, k)

\* The scan starts one slot late.
get_idx_skip_first(k) == get_idx_from(1, k)

get_idx(k) == get_idx_from(0, k)

\* Leaf::get_ref
get_ref(k) ==
    LET r == get_idx(k)
    IN  IF r = None THEN None ELSE Some(assume_init(value[assume_init(r)]))

----------------------------------------------------------------------------
\* Leaf::insert_or_update, one operator per path.  Each gives the leaf after
\* the call and the outcome.

\* The value is not replaced, the passed value is handed back.
update_existing_no_replace(idx, v) ==
    [count |-> count, key |-> key, value |-> value,
     ret |-> InsertOk(Some(v))]

\* Ok(idx): the key exists, replace its value and return the previous one.
update_existing(idx, v) ==
    [count |-> count,
     key |-> key,
     value |-> [value EXCEPT ![idx] = MaybeUninit_new(v)],
     ret |-> InsertOk(Some(assume_init(value[idx])))]

\* The new pair also overwrites the last slot.
split_above_max_overwrite(k, v) ==
    [count |-> count,
     key |-> [key EXCEPT ![L_MAX_IDX] = MaybeUninit_new(k)],
     value |-> [value EXCEPT ![L_MAX_IDX] = MaybeUninit_new(v)],
     ret |-> Split(k, v)]

\* Err(idx), full, idx >= count: the pair goes back to the caller untouched.
split_above_max(k, v) ==
    [count |-> count, key |-> key, value |-> value, ret |-> Split(k, v)]

\* The maximum is taken out but the new pair is what is handed back.
split_displace_max_returns_new(idx, k, v) ==
    LET rk == slice_remove(key, L_MAX_IDX)
        rv == slice_remove(value, L_MAX_IDX)
    IN  [count |-> count,
         key |-> slice_insert(rk.slice, MaybeUninit_new(k), idx),
         value |-> slice_insert(rv.slice, MaybeUninit_new(v), idx),
         ret |-> Split(k, v)]

\* Err(idx), full, idx < count: take out the current maximum, shift the new
\* pair in at idx, return the maximum.
split_displace_max(idx, k, v) ==
    LET rk == slice_remove(key, L_MAX_IDX)
        rv == slice_remove(value, L_MAX_IDX)
        pk == assume_init(rk.elem)
        pv == assume_init(rv.elem)
    IN  [count |-> count,
         key |-> slice_insert(rk.slice, MaybeUninit_new(k), idx),
         value |-> slice_insert(rv.slice, MaybeUninit_new(v), idx),
         ret |-> Split(pk, pv)]

\* The pair is written at the end of the live prefix instead of at idx.
insert_with_space_append(idx, k, v) ==
    [count |-> count + 1,
     key |-> slice_insert(key, MaybeUninit_new(k), count),
     value |-> slice_insert(value, MaybeUninit_new(v), count),
     ret |-> InsertOk(None)]

\* The count is not incremented.
insert_with_space_no_count(idx, k, v) ==
    [count |-> count,
     key |-> slice_insert(key, MaybeUninit_new(k), idx),
     value |-> slice_insert(value, MaybeUninit_new(v), idx),
     ret |-> InsertOk(None)]

\* Err(idx), not full: shift the pair in at idx and count it.
insert_with_space(idx, k, v) ==
    [count |-> count + 1,
     key |-> slice_insert(key, MaybeUninit_new(k), idx),
     value |-> slice_insert(value, MaybeUninit_new(v), idx),
     ret |-> InsertOk(None)]

insert_or_update(k, v) ==
    LET r == binary_search(key, count, k)
        n == IF r.found
             THEN update_existing(r.idx, v)
             ELSE IF count = L_CAPACITY
                  THEN IF r.idx >= count
                       THEN split_above_max(k, v)
                       ELSE split_displace_max(r.idx, k, v)
                  ELSE insert_with_space(r.idx, k, v)
    IN  /\ count' = n.count
        /\ key' = n.key
        /\ value' = n.value
        /\ ret' = n.ret
        /\ call' = [op |-> "insert_or_update", k |-> Some(k), v |-> Some(v)]
        /\ old' = LeafOf(count, key, value)

----------------------------------------------------------------------------
\* Leaf::remove, one operator per path.

\* An empty leaf answers like an absent key.
remove_empty_as_absent ==
    [count |-> count, key |-> key, value |-> value, ret |-> RemoveOk(None)]

\* count == 0: Shrink(None).
remove_empty ==
    [count |-> count, key |-> key, value |-> value, ret |-> Shrink(None)]

\* An absent key answers like an empty leaf.
remove_absent_as_empty ==
    [count |-> count, key |-> key, value |-> value, ret |-> Shrink(None)]

\* get_idx found nothing: Ok(None).
remove_absent ==
    [count |-> count, key |-> key, value |-> value, ret |-> RemoveOk(None)]

\* The shrink test is off by one: a leaf left with one pair reports Shrink.
remove_found_early_shrink(idx) ==
    LET rk == slice_remove(key, idx)
        rv == slice_remove(value, idx)
        pv == assume_init(rv.elem)
        n  == count - 1
    IN  [count |-> n, key |-> rk.slice, value |-> rv.slice,
         ret |-> IF n <= 1 THEN Shrink(Some(pv)) ELSE RemoveOk(Some(pv))]

\* The shrink test is missing.
remove_found_never_shrink(idx) ==
    LET rk == slice_remove(key, idx)
        rv == slice_remove(value, idx)
        pv == assume_init(rv.elem)
    IN  [count |-> count - 1, key |-> rk.slice, value |-> rv.slice,
         ret |-> RemoveOk(Some(pv))]

\* Some(idx): take the pair out, decrement count, Shrink if that emptied us.
remove_found(idx) ==
    LET rk == slice_remove(key, idx)
        rv == slice_remove(value, idx)
        pv == assume_init(rv.elem)
        n  == count - 1
    IN  [count |-> n, key |-> rk.slice, value |-> rv.slice,
         ret |-> IF n = 0 THEN Shrink(Some(pv)) ELSE RemoveOk(Some(pv))]

remove(k) ==
    LET n == IF count = 0
             THEN remove_empty
             ELSE LET r == get_idx(k)
                  IN  IF r = None
                      THEN remove_absent
                      ELSE remove_found(assume_init(r))
    IN  /\ count' = n.count
        /\ key' = n.key
        /\ value' = n.value
        /\ ret' = n.ret
        /\ call' = [op |-> "remove", k |-> Some(k), v |-> None]
        /\ old' = LeafOf(count, key, value)

----------------------------------------------------------------------------
\* Leaf::min, Leaf::max

\* Width of usize as modelled; count - 1 wraps at 2^USIZE_BITS when the build
\* does not check arithmetic.
USIZE_BITS == 16
wrapping_sub(a, b) == (a - b) % (2 ^ USIZE_BITS)

\* &K handed back to the caller, and a panic that unwinds out of the call.
KeyRef(k) == [tag |-> "Ref", k |-> Some(k), v |-> None]
Panic == [tag |-> "Panic", k |-> None, v |-> None]

\* arr[idx] on a fixed array: bounds-checked.
index(arr, idx) ==
    IF idx \in Slots
    THEN [panic |-> FALSE, slot |-> arr[idx]]
    ELSE [panic |-> TRUE, slot |-> Uninit]

\* &*slot.as_ptr(): what a reference into the slot shows.  Reading a slot that
\* was never initialised is undefined: any key may show.
deref(slot) == IF slot = Uninit THEN Keys ELSE slot

\* The index of the first key is given for the last.
max_idx_first(debug_assertions) ==
    IF debug_assertions /\ ~(count > 0)
    THEN [panic |-> TRUE, idx |-> 0]
    ELSE [panic |-> FALSE, idx |-> 0]

\* debug_assert!(count > 0) exists in debug builds only; count - 1.
max_idx(debug_assertions) ==
    IF debug_assertions /\ ~(count > 0)
    THEN [panic |-> TRUE, idx |-> 0]
    ELSE [panic |-> FALSE, idx |-> wrapping_sub(count, 1)]

min ==
    LET s == index(key, 0)
    IN  /\ IF s.panic
           THEN ret' = Panic
           ELSE \E x \in deref(s.slot) : ret' = KeyRef(x)
        /\ call' = [op |-> "min", k |-> None, v |-> None]
        /\ old' = LeafOf(count, key, value)
        /\ UNCHANGED <<count, key, value>>

max(debug_assertions) ==
    LET m == max_idx(debug_assertions)
        s == index(key, m.idx)
    IN  /\ IF m.panic \/ s.panic
           THEN ret' = Panic
           ELSE \E x \in deref(s.slot) : ret' = KeyRef(x)
        /\ call' = [op |-> "max", k |-> None, v |-> None]
        /\ old' = LeafOf(count, key, value)
        /\ UNCHANGED <<count, key, value>>

----------------------------------------------------------------------------
\* Read-only accessors

\* Leaf::get_kv_idx_checked
get_kv_idx_checked(idx) ==
    IF idx < count
    THEN Some(<<assume_init(key[idx]), assume_init(value[idx])>>)
    ELSE None

\* Leaf::len
len == count

\* Leaf::tree_density
tree_density == <<count, L_CAPACITY>>

----------------------------------------------------------------------------
\* The calls of the slot-array utilities that insert_or_update and remove
\* make, in order.  Each is recorded with its index, the leaf's count at the
\* moment of the call and the number of initialised slots of the array passed.

InitedIn(slice) == Cardinality({i \in Slots : slice[i] # Uninit})

SliceCall(fn, slice, idx) ==
    [fn |-> fn, idx |-> idx, count |-> count, inited |-> InitedIn(slice)]

\* On a full leaf the new pair is shifted in before the maximum is taken out.
insert_slice_calls_insert_first(k) ==
    LET r == binary_search(key, count, k)
    IN  IF r.found
        THEN <<>>
        ELSE IF count = L_CAPACITY
             THEN IF r.idx >= count
                  THEN <<>>
                  ELSE <<SliceCall("slice_insert", key, r.idx),
                         SliceCall("slice_insert", value, r.idx),
                         SliceCall("slice_remove",
                                   slice_insert(key, MaybeUninit_new(k), r.idx),
                                   L_MAX_IDX),
                         SliceCall("slice_remove",
                                   slice_insert(value, MaybeUninit_new(k), r.idx),
                                   L_MAX_IDX)>>
             ELSE <<SliceCall("slice_insert", key, r.idx),
                    SliceCall("slice_insert", value, r.idx)>>

\* Leaf::insert_or_update
insert_slice_calls(k) ==
    LET r == binary_search(key, count, k)
    IN  IF r.found
        THEN <<>>
        ELSE IF count = L_CAPACITY
             THEN IF r.idx >= count
                  THEN <<>>
                  ELSE <<SliceCall("slice_remove", key, L_MAX_IDX),
                         SliceCall("slice_remove", value, L_MAX_IDX),
                         SliceCall("slice_insert",
                                   slice_remove(key, L_MAX_IDX).slice, r.idx),
                         SliceCall("slice_insert",
                                   slice_remove(value, L_MAX_IDX).slice, r.idx)>>
             ELSE <<SliceCall("slice_insert", key, r.idx),
                    SliceCall("slice_insert", value, r.idx)>>

\* Leaf::remove
remove_slice_calls(k) ==
    IF count = 0
    THEN <<>>
    ELSE LET r == get_idx(k)
         IN  IF r = None
             THEN <<>>
             ELSE <<SliceCall("slice_remove", key, assume_init(r)),
                    SliceCall("slice_remove", value, assume_init(r))>>

----------------------------------------------------------------------------
\* The reference map stepped alongside the leaf: a finite function from keys
\* to values.

EmptyMap == [x \in {} |-> 0]
MapPut(m, k, v) == [x \in DOMAIN m \cup {k} |-> IF x = k THEN v ELSE m[x]]
MapDel(m, ks) == [x \in DOMAIN m \ ks |-> m[x]]

\* insert_or_update(k, v): put k -> v, then evict the pair a Split handed back.
RefInsert(m, k, v, outcome) ==
    IF outcome.tag = "Split"
    THEN MapDel(MapPut(m, k, v), outcome.k)
    ELSE MapPut(m, k, v)

\* remove(k): delete k.
RefRemove(m, k) == MapDel(m, {k})

----------------------------------------------------------------------------
\* Clone for Leaf, Drop for Leaf, and the second leaf they bring in.

NoSlots == [i \in Slots |-> Uninit]

NoPeer ==
    [alive |-> FALSE, count |-> 0, key |-> NoSlots, value |-> NoSlots,
     map |-> EmptyMap]

\* K::clone / V::clone of a usize.
clone_elem(x) == x

\* Leaf::clone: fresh arrays, the live prefix cloned slot by slot, same count.
clone ==
    LeafOf(count,
           [i \in Slots |-> IF i < count
                            THEN MaybeUninit_new(clone_elem(assume_init(key[i])))
                            ELSE Uninit],
           [i \in Slots |-> IF i < count
                            THEN MaybeUninit_new(clone_elem(assume_init(value[i])))
                            ELSE Uninit])

----------------------------------------------------------------------------
\* Ownership.  Every K and V handed to a leaf, and every K and V that clone
\* makes, is an object with an identity of its own.  own.kobj / own.vobj say
\* which object sits in which slot of key / value, own.pkobj / own.pvobj the
\* same for the second leaf, own.returned holds the objects handed to the
\* caller in an outcome, own.destroyed counts how often each was dropped.

MaxObjects == 8
ObjIds == 1..MaxObjects

OwnInit ==
    [next |-> 1,
     kobj |-> NoSlots, vobj |-> NoSlots,
     pkobj |-> NoSlots, pvobj |-> NoSlots,
     returned |-> {},
     destroyed |-> [o \in ObjIds |-> 0]]

\* Dropping each object of a set once.
drop_in_place(destroyed, objs) ==
    [o \in ObjIds |-> destroyed[o] + (IF o \in objs THEN 1 ELSE 0)]

\* insert_or_update(k, v) takes k and v by value: objects own.next and
\* own.next + 1.
own_insert(k) ==
    LET r  == binary_search(key, count, k)
        ko == own.next
        vo == own.next + 1
        o  == [own EXCEPT !.next = own.next + 2]
    IN  IF r.found
        THEN \* the slot's value is replaced and returned, k dies with the call
             [o EXCEPT !.vobj = [own.vobj EXCEPT ![r.idx] = MaybeUninit_new(vo)],
                       !.returned = own.returned \cup own.vobj[r.idx],
                       !.destroyed = drop_in_place(own.destroyed, {ko})]
        ELSE IF count = L_CAPACITY
             THEN IF r.idx >= count
                  THEN [o EXCEPT !.returned = own.returned \cup {ko, vo}]
                  ELSE LET rk == slice_remove(own.kobj, L_MAX_IDX)
                           rv == slice_remove(own.vobj, L_MAX_IDX)
                       IN  [o EXCEPT
                              !.kobj = slice_insert(rk.slice, MaybeUninit_new(ko), r.idx),
                              !.vobj = slice_insert(rv.slice, MaybeUninit_new(vo), r.idx),
                              !.returned = own.returned \cup rk.elem \cup rv.elem]
             ELSE [o EXCEPT
                     !.kobj = slice_insert(own.kobj, MaybeUninit_new(ko), r.idx),
                     !.vobj = slice_insert(own.vobj, MaybeUninit_new(vo), r.idx)]

\* remove(&k) borrows k.  _pk dies with the call, pv is returned.
own_remove(k) ==
    IF count = 0
    THEN own
    ELSE LET r == get_idx(k)
         IN  IF r = None
             THEN own
             ELSE LET rk == slice_remove(own.kobj, assume_init(r))
                      rv == slice_remove(own.vobj, assume_init(r))
                  IN  [own EXCEPT
                         !.kobj = rk.slice,
                         !.vobj = rv.slice,
                         !.returned = own.returned \cup rv.elem,
                         !.destroyed = drop_in_place(own.destroyed, rk.elem)]

\* The slots are copied bit by bit: the new leaf holds the same objects.
own_clone_bitwise ==
    [own EXCEPT
       !.pkobj = [i \in Slots |-> IF i < count THEN own.kobj[i] ELSE Uninit],
       !.pvobj = [i \in Slots |-> IF i < count THEN own.vobj[i] ELSE Uninit]]

\* clone(): every live key and value is cloned into an object of its own.
own_clone ==
    [own EXCEPT
       !.next = own.next + 2 * count,
       !.pkobj = [i \in Slots |-> IF i < count
                                  THEN MaybeUninit_new(own.next + 2 * i)
                                  ELSE Uninit],
       !.pvobj = [i \in Slots |-> IF i < count
                                  THEN MaybeUninit_new(own.next + 2 * i + 1)
                                  ELSE Uninit]]

\* The loop stops one pair short.
drop_short(c, kobj, vobj) ==
    UNION {kobj[i] \cup vobj[i] : i \in 0..(c - 2)}

\* Leaf::drop: the objects drop_in_place is applied to, for idx in 0..count.
drop(c, kobj, vobj) ==
    UNION {kobj[i] \cup vobj[i] : i \in 0..(c - 1)}

\* The second leaf is dropped.
own_drop ==
    [own EXCEPT
       !.destroyed = drop_in_place(own.destroyed,
                                   drop(peer.count, own.pkobj, own.pvobj)),
       !.pkobj = NoSlots,
       !.pvobj = NoSlots]

\* The caller turns to the other leaf.
own_turn ==
    [own EXCEPT !.kobj = own.pkobj, !.vobj = own.pvobj,
                !.pkobj = own.kobj, !.pvobj = own.vobj]

CloneStep ==
    /\ ~peer.alive
    /\ own.next + 2 * count <= MaxObjects + 1
    /\ peer' = [alive |-> TRUE, count |-> clone.count, key |-> clone.key,
                value |-> clone.value, map |-> map]
    /\ own' = own_clone
    /\ call' = [op |-> "clone", k |-> None, v |-> None]
    /\ ret' = NoRet
    /\ old' = LeafOf(count, key, value)
    /\ calls' = <<>>
    /\ UNCHANGED <<count, key, value, map>>

DropStep ==
    /\ peer.alive
    /\ peer' = NoPeer
    /\ own' = own_drop
    /\ call' = [op |-> "drop", k |-> None, v |-> None]
    /\ ret' = NoRet
    /\ old' = LeafOf(peer.count, peer.key, peer.value)
    /\ calls' = <<>>
    /\ UNCHANGED <<count, key, value, map>>

\* The next calls are made on the other leaf.
TurnStep ==
    /\ peer.alive
    /\ count' = peer.count
    /\ key' = peer.key
    /\ value' = peer.value
    /\ map' = peer.map
    /\ peer' = [alive |-> TRUE, count |-> count, key |-> key,
                value |-> value, map |-> map]
    /\ own' = own_turn
    /\ call' = [op |-> "turn", k |-> None, v |-> None]
    /\ ret' = NoRet
    /\ old' = LeafOf(peer.count, peer.key, peer.value)
    /\ calls' = <<>>

----------------------------------------------------------------------------
\* Leaf::new

Init ==
    /\ count = 0
    /\ key = [i \in Slots |-> Uninit]
    /\ value = [i \in Slots |-> Uninit]
    /\ call = [op |-> "new", k |-> None, v |-> None]
    /\ ret = NoRet
    /\ old = LeafOf(0, [i \in Slots |-> Uninit], [i \in Slots |-> Uninit])
    /\ map = EmptyMap
    /\ calls = <<>>
    /\ peer = NoPeer
    /\ own = OwnInit

\* A call on the leaf together with the bookkeeping that goes with it.
InsertStep(k, v) ==
    /\ insert_or_update(k, v)
    /\ map' = RefInsert(map, k, v, ret')
    /\ calls' = insert_slice_calls(k)
    /\ UNCHANGED peer

RemoveStep(k) ==
    /\ remove(k)
    /\ map' = RefRemove(map, k)
    /\ calls' = remove_slice_calls(k)
    /\ UNCHANGED peer

MinStep == min /\ calls' = <<>> /\ UNCHANGED <<map, peer>>

MaxStep(debug_assertions) ==
    max(debug_assertions) /\ calls' = <<>> /\ UNCHANGED <<map, peer>>

\* One leaf, objects not followed.
Next ==
    \/ \E k \in Keys, v \in Vals : InsertStep(k, v) /\ UNCHANGED own
    \/ \E k \in Keys : RemoveStep(k) /\ UNCHANGED own
    \/ MinStep /\ UNCHANGED own
    \/ \E debug_assertions \in BOOLEAN :
          MaxStep(debug_assertions) /\ UNCHANGED own

Spec == Init /\ [][Next]_vars

\* The tests' leaves: Leaf<usize, usize> fed pairs (kv, kv) with keys up to
\* L_CAPACITY + 1.
ScenarioKeys == 0..(L_CAPACITY + 1)

NextScenario ==
    \/ \E kv \in ScenarioKeys : InsertStep(kv, kv) /\ UNCHANGED own
    \/ \E kv \in ScenarioKeys : RemoveStep(kv) /\ UNCHANGED own

SpecScenario == Init /\ [][NextScenario]_vars

\* Two leaves, objects followed; insert_or_update and clone stop when the
\* object identities run out.
NextClone ==
    \/ \E k \in Keys :
          /\ own.next + 2 <= MaxObjects + 1
          /\ InsertStep(k, k % (MaxVal + 1))
          /\ own' = own_insert(k)
    \/ \E k \in Keys : RemoveStep(k) /\ own' = own_remove(k)
    \/ CloneStep
    \/ DropStep
    \/ TurnStep

SpecClone == Init /\ [][NextClone]_vars

----------------------------------------------------------------------------
\* Views of a leaf used to state the properties.

Cur == LeafOf(count, key, value)

Live(l) == 0..(l.count - 1)
LiveKeys(l) == {assume_init(l.key[i]) : i \in Live(l)}
LivePairs(l) == {<<assume_init(l.key[i]), assume_init(l.value[i])>> : i \in Live(l)}
LiveSeq(l) == [i \in 1..l.count |->
                <<assume_init(l.key[i - 1]), assume_init(l.value[i - 1])>>]
ValueOf(l, k) == {p[2] : p \in {q \in LivePairs(l) : q[1] = k}}
MaxKeyOf(l) == CHOOSE m \in LiveKeys(l) : \A x \in LiveKeys(l) : x <= m
AllInit(l) == \A i \in Live(l) : l.key[i] # Uninit /\ l.value[i] # Uninit

IsInsert == call.op = "insert_or_update"
IsRemove == call.op = "remove"
ArgK == assume_init(call.k)
ArgV == assume_init(call.v)

----------------------------------------------------------------------------
\* C1: after every insert_or_update and remove call on a leaf made by new(),
\* the live keys key[0..count) are initialised and strictly ascending, hence
\* free of duplicates.
C1_Sorted ==
    \A i, j \in Slots :
        (i < j /\ j < count) =>
            /\ key[i] # Uninit
            /\ key[j] # Uninit
            /\ assume_init(key[i]) < assume_init(key[j])

\* A key was shifted into the front of a leaf that then became full.
C1_Witness ==
    /\ IsInsert
    /\ ret = InsertOk(None)
    /\ count = L_CAPACITY
    /\ key[0] = call.k

\* C2: inserting a key that is already present, in any leaf (a full one
\* included), returns Ok(Some(previous value)) and never Split; count and the
\* keys are unchanged, every other key keeps its value, and get_ref of the
\* key then gives the new value.
C2_UpdateExisting ==
    (IsInsert /\ ArgK \in LiveKeys(old)) =>
        /\ ret = InsertOk(ValueOf(old, ArgK))
        /\ Cardinality(ValueOf(old, ArgK)) = 1
        /\ count = old.count
        /\ key = old.key
        /\ \A i \in Live(old) :
              old.key[i] # call.k => value[i] = old.value[i]
        /\ get_ref(ArgK) = Some(ArgV)

\* A full leaf had the value of one of its keys changed.
C2_Witness ==
    /\ IsInsert
    /\ old.count = L_CAPACITY
    /\ ArgK \in LiveKeys(old)
    /\ ValueOf(old, ArgK) # Some(ArgV)
    /\ ret.tag = "Ok"

\* C3: a full leaf given an absent key below its maximum returns
\* Split(old maximum key, old maximum value); afterwards it holds the new
\* pair, no longer holds the old maximum, keeps every other pair, and count
\* is still L_CAPACITY.
C3_DisplaceMax ==
    (/\ IsInsert
     /\ old.count = L_CAPACITY
     /\ ArgK \notin LiveKeys(old)
     /\ ArgK < MaxKeyOf(old)) =>
        LET mk == MaxKeyOf(old)
            mv == assume_init(ValueOf(old, mk))
        IN  /\ ret = Split(mk, mv)
            /\ AllInit(Cur)
            /\ get_ref(ArgK) = Some(ArgV)
            /\ mk \notin LiveKeys(Cur)
            /\ LivePairs(Cur) = (LivePairs(old) \ {<<mk, mv>>}) \cup {<<ArgK, ArgV>>}
            /\ count = L_CAPACITY

\* A full leaf took a key below its minimum and gave up its maximum.
C3_Witness ==
    /\ IsInsert
    /\ old.count = L_CAPACITY
    /\ ret.tag = "Split"
    /\ ret.k # call.k
    /\ key[0] = call.k

\* C4: a full leaf given a key above its maximum returns Split of exactly the
\* passed key and value, and its keys, values and count are unchanged.
C4_AboveMax ==
    (/\ IsInsert
     /\ old.count = L_CAPACITY
     /\ ArgK > MaxKeyOf(old)) =>
        /\ ret = Split(ArgK, ArgV)
        /\ count = old.count
        /\ key = old.key
        /\ value = old.value

\* A full leaf refused a key above its maximum.
C4_Witness ==
    /\ IsInsert
    /\ old.count = L_CAPACITY
    /\ ArgK > MaxKeyOf(old)
    /\ ret.tag = "Split"

\* C5: whenever insert_or_update returns Split(sk, sv), the leaf then holds
\* exactly the L_CAPACITY smallest keys of (its keys before the call plus the
\* new key), sk is above every key it holds, and sv is the value that was
\* paired with sk.
C5_KeepsSmallest ==
    (IsInsert /\ ret.tag = "Split") =>
        LET all == LiveKeys(old) \cup {ArgK}
            sk == assume_init(ret.k)
            sv == assume_init(ret.v)
        IN  /\ AllInit(Cur)
            /\ LiveKeys(Cur) \subseteq all
            /\ Cardinality(LiveKeys(Cur)) = L_CAPACITY
            /\ \A x \in all \ LiveKeys(Cur) : \A y \in LiveKeys(Cur) : y < x
            /\ \A y \in LiveKeys(Cur) : y < sk
            /\ all \ LiveKeys(Cur) = {sk}
            /\ <<sk, sv>> \in LivePairs(old) \cup {<<ArgK, ArgV>>}

\* A Split that displaced the maximum for a key landing inside the leaf.
C5_Witness ==
    /\ IsInsert
    /\ ret.tag = "Split"
    /\ ret.k # call.k
    /\ key[0] # call.k
    /\ ArgK \in LiveKeys(Cur)

\* C6: a leaf with count < L_CAPACITY never returns Split; for an absent key
\* it returns Ok(None), count grows by exactly 1, get_ref finds the new pair
\* and every pair held before is retained.
C6_NoSplitBelowCapacity ==
    (IsInsert /\ old.count < L_CAPACITY) =>
        /\ ret.tag = "Ok"
        /\ ArgK \notin LiveKeys(old) =>
              /\ ret = InsertOk(None)
              /\ count = old.count + 1
              /\ AllInit(Cur)
              /\ get_ref(ArgK) = Some(ArgV)
              /\ LivePairs(Cur) = LivePairs(old) \cup {<<ArgK, ArgV>>}

\* A new key went between two keys of a leaf that had room.
C6_Witness ==
    /\ IsInsert
    /\ old.count = L_CAPACITY - 1
    /\ old.count >= 2
    /\ ret = InsertOk(None)
    /\ key[1] = call.k

\* C7: removing a present key returns the value it had, decrements count by
\* exactly 1, removes that key only (the other pairs keep their values and
\* their order), and the outcome is Shrink(Some(value)) exactly when count
\* became 0 and Ok(Some(value)) otherwise.
C7_RemovePresent ==
    (IsRemove /\ old.count > 0 /\ ArgK \in LiveKeys(old)) =>
        /\ ret.v = ValueOf(old, ArgK)
        /\ Cardinality(ret.v) = 1
        /\ count = old.count - 1
        /\ AllInit(Cur)
        /\ LiveSeq(Cur) = SelectSeq(LiveSeq(old), LAMBDA p : p[1] # ArgK)
        /\ ret.tag = (IF count = 0 THEN "Shrink" ELSE "Ok")

\* A key was removed from the middle of a leaf, leaving pairs on both sides.
C7_Witness ==
    /\ IsRemove
    /\ old.count = L_CAPACITY
    /\ old.key[1] = call.k
    /\ ret.tag = "Ok"
    /\ ret.v # None

\* C8: removing an absent key from a leaf with count > 0 returns Ok(None)
\* and leaves count, keys and values unchanged.
C8_RemoveAbsent ==
    (IsRemove /\ old.count > 0 /\ ArgK \notin LiveKeys(old)) =>
        /\ ret = RemoveOk(None)
        /\ count = old.count
        /\ key = old.key
        /\ value = old.value

\* A non-empty leaf was asked to remove a key it does not hold.
C8_Witness ==
    /\ IsRemove
    /\ old.count > 0
    /\ ArgK \notin LiveKeys(old)
    /\ ret.tag = "Ok"
    /\ ret.v = None

\* C9: remove on a leaf with count = 0 returns Shrink(None) for every key and
\* leaves the leaf empty.
C9_RemoveEmpty ==
    (IsRemove /\ old.count = 0) =>
        /\ ret = Shrink(None)
        /\ count = 0
        /\ key = old.key
        /\ value = old.value

\* An empty leaf was asked to remove a key other than the smallest.
C9_Witness ==
    /\ IsRemove
    /\ old.count = 0
    /\ ArgK > 0
    /\ ret.tag = "Shrink"
    /\ count = 0

\* C10 as stated: a remove that empties the leaf returns Shrink, and once a
\* remove has emptied the leaf and returned Shrink, no further remove returns
\* Shrink until the leaf was refilled.
C10_ShrinkOncePerEmptying ==
    [][call'.op = "remove" =>
          /\ (count > 0 /\ count' = 0) => ret'.tag = "Shrink"
          /\ (call.op = "remove" /\ old.count > 0 /\ ret.tag = "Shrink")
                 => ret'.tag # "Shrink"
      ]_vars

\* C10, amended: a remove returns Shrink(Some(value)) exactly when it takes
\* the leaf from non-empty to empty, so no further remove returns
\* Shrink(Some(_)) until the leaf was refilled and emptied again; a remove on
\* an already empty leaf returns Shrink(None), each time it is called.
C10_ShrinkSomeOncePerEmptying ==
    [][call'.op = "remove" =>
          /\ (ret'.tag = "Shrink" /\ ret'.v # None) <=> (count > 0 /\ count' = 0)
          /\ (ret'.tag = "Shrink" /\ ret'.v = None) <=> count = 0
          /\ (call.op = "remove" /\ ret.tag = "Shrink") => ret' = Shrink(None)
      ]_vars

\* The last pair of a leaf was removed and the leaf reported Shrink(Some).
C10_Witness ==
    /\ IsRemove
    /\ old.count = 1
    /\ count = 0
    /\ ret.tag = "Shrink"
    /\ ret.v # None

IsMin == call.op = "min"
IsMax == call.op = "max"
MinKeyOf(l) == CHOOSE m \in LiveKeys(l) : \A x \in LiveKeys(l) : m <= x

\* C11: min() and max() called on a leaf with count = 0, fresh or emptied by
\* removes, fail loudly (panic) and never hand back a key reference.
C11_EmptyMinMaxPanic ==
    ((IsMin \/ IsMax) /\ old.count = 0) => ret = Panic

\* C12: on a leaf with count > 0, min() returns the smallest key held and
\* max() the largest key held.
C12_MinMax ==
    /\ (IsMin /\ old.count > 0) => ret = KeyRef(MinKeyOf(old))
    /\ (IsMax /\ old.count > 0) => ret = KeyRef(MaxKeyOf(old))

\* max() was asked of a full leaf and min() would answer differently.
C12_Witness ==
    /\ IsMax
    /\ old.count = L_CAPACITY
    /\ ret.tag = "Ref"
    /\ ret.k # key[0]

\* C15: count stays within 0..L_CAPACITY and equals the number of distinct
\* keys held; len() gives that number and tree_density() gives it paired with
\* L_CAPACITY; a leaf from new() has count 0.
C15_CountBounds ==
    /\ count \in 0..L_CAPACITY
    /\ \A i \in Live(Cur) : key[i] # Uninit
    /\ len = Cardinality(LiveKeys(Cur))
    /\ len = Cardinality(DOMAIN map)
    /\ tree_density = <<Cardinality(DOMAIN map), L_CAPACITY>>
    /\ call.op = "new" => len = 0

\* A full leaf that has just been refused a further key.
C15_Witness ==
    /\ IsInsert
    /\ ret.tag = "Split"
    /\ len = L_CAPACITY
    /\ Cardinality(LiveKeys(Cur)) = L_CAPACITY

\* C19: in every leaf state and for every key, the binary search of
\* insert_or_update and the linear scan get_idx agree: the search reports
\* Ok(i) exactly when get_idx gives Some(i), and Err when get_idx gives None.
C19_SearchAgree ==
    \A k \in Keys :
        LET r == binary_search(key, count, k)
        IN  /\ r.found => get_idx(k) = Some(r.idx)
            /\ ~r.found => get_idx(k) = None

\* A full leaf in which the search finds its middle key and misses another.
C19_Witness ==
    /\ count = L_CAPACITY
    /\ \E k \in Keys : binary_search(key, count, k) = SearchOk(1)
    /\ \E k \in Keys : ~binary_search(key, count, k).found
    /\ IsRemove

\* The i-th key of the reference map in ascending order, i counted from 0.
MapKeyAt(m, i) ==
    CHOOSE k \in DOMAIN m : Cardinality({x \in DOMAIN m : x < k}) = i

\* C17: the leaf refines a capacity-bounded ordered map.  With the reference
\* map stepped alongside, get_ref(k) is Some(v) exactly when the map holds
\* k -> v, get_kv_idx_checked(i) for i < count is the i-th pair of the map in
\* ascending key order, and it is None for every i >= count.
C17_RefinesMap ==
    /\ Cardinality(DOMAIN map) <= L_CAPACITY
    /\ \A k \in Keys :
          get_ref(k) = (IF k \in DOMAIN map THEN Some(map[k]) ELSE None)
    /\ \A i \in 0..(L_CAPACITY + 1) :
          /\ i < count =>
                /\ i < Cardinality(DOMAIN map)
                /\ get_kv_idx_checked(i) =
                      Some(<<MapKeyAt(map, i), map[MapKeyAt(map, i)]>>)
          /\ i >= count => get_kv_idx_checked(i) = None

\* A full leaf whose pairs do not all carry the same value, after a Split
\* that displaced its maximum.
C17_Witness ==
    /\ IsInsert
    /\ ret.tag = "Split"
    /\ ret.k # call.k
    /\ Cardinality(DOMAIN map) = L_CAPACITY
    /\ \E a, b \in DOMAIN map : map[a] # map[b]
    /\ get_kv_idx_checked(1) # None

CallsOf(fn) == {calls[i] : i \in {j \in DOMAIN calls : calls[j].fn = fn}}

\* C18 as stated: every slice_insert is called with count < capacity and
\* 0 <= index <= count, and every slice_remove with index < count, count
\* being the leaf's count at the moment of the call; the displacement path of
\* a full leaf included.
C18_ShiftPreconditions ==
    /\ \A c \in CallsOf("slice_insert") :
          c.count < L_CAPACITY /\ 0 <= c.idx /\ c.idx <= c.count
    /\ \A c \in CallsOf("slice_remove") : c.idx < c.count

\* The last call went down the displacement path of a full leaf.
Displaced == IsInsert /\ old.count = L_CAPACITY /\ ret.tag = "Split" /\ ret.k # call.k

\* C18, amended: every slice_insert is called on an array with fewer than
\* capacity initialised slots and with 0 <= index <= that number, and every
\* slice_remove with index < that number.  That number is the leaf's count at
\* the moment of the call, except for the slice_insert calls of the
\* displacement path: there count is still L_CAPACITY, the slice_remove at
\* L_MAX_IDX that came first having left L_CAPACITY - 1 initialised slots.
C18_ShiftPreconditionsOnLive ==
    /\ \A c \in CallsOf("slice_insert") :
          /\ c.inited < L_CAPACITY
          /\ 0 <= c.idx
          /\ c.idx <= c.inited
          /\ IF Displaced
             THEN c.count = L_CAPACITY /\ c.inited = L_CAPACITY - 1
             ELSE c.inited = c.count
    /\ \A c \in CallsOf("slice_remove") :
          /\ c.idx < c.inited
          /\ c.inited = c.count
    /\ Displaced =>
          /\ Len(calls) = 4
          /\ calls[1].fn = "slice_remove" /\ calls[1].idx = L_MAX_IDX
          /\ calls[2].fn = "slice_remove" /\ calls[2].idx = L_MAX_IDX
          /\ calls[3].fn = "slice_insert"
          /\ calls[4].fn = "slice_insert"

\* A full leaf displaced its maximum for a key that went to its front.
C18_Witness ==
    /\ Displaced
    /\ Len(calls) = 4
    /\ calls[3].idx = 0

\* The leaf after insert_or_update(kv, kv) for kv = 0, 1, .., n - 1 in order.
InOrder(n) ==
    LeafOf(n,
           [i \in Slots |-> IF i < n THEN MaybeUninit_new(i) ELSE Uninit],
           [i \in Slots |-> IF i < n THEN MaybeUninit_new(i) ELSE Uninit])

InsertOfSame(c, kv) ==
    c = [op |-> "insert_or_update", k |-> Some(kv), v |-> Some(kv)]

\* The first two stages of the scenario, with L_CAPACITY for the 10 of the
\* text: the keys 0 .. L_CAPACITY - 1 go in in order, each with Ok(None), and
\* key L_CAPACITY then comes back as Split(L_CAPACITY, L_CAPACITY) from an
\* unchanged leaf.
ScenarioFillAndOverflow ==
    /\ \A n \in 0..(L_CAPACITY - 1) :
          (InsertOfSame(call, n) /\ old = InOrder(n)) =>
              ret = InsertOk(None) /\ Cur = InOrder(n + 1)
    /\ (InsertOfSame(call, L_CAPACITY) /\ old = InOrder(L_CAPACITY)) =>
          ret = Split(L_CAPACITY, L_CAPACITY) /\ Cur = old

\* The step of the scenario's last stage: key L_CAPACITY has just been
\* refused by the leaf filled in order, and key 0 is inserted again.
ScenarioLastStep ==
    /\ InsertOfSame(call, L_CAPACITY)
    /\ Cur = InOrder(L_CAPACITY)
    /\ InsertOfSame(call', 0)

\* C14 as stated: after the keys 0 .. 9 went in in order, each with Ok(None),
\* key 10 gives Split(10, 10) and leaves the leaf unchanged, and key 0 again
\* then gives Split(old max, old max), with key 0 present afterwards.
C14_Scenario ==
    /\ []ScenarioFillAndOverflow
    /\ [][ScenarioLastStep =>
            /\ ret' = Split(L_MAX_IDX, L_MAX_IDX)
            /\ get_ref(0)' # None
        ]_vars

\* C14, amended: after the keys 0 .. 9 went in in order, each with Ok(None),
\* key 10 gives Split(10, 10) and leaves the leaf unchanged; key 0 again is
\* then an update of the key 0 the leaf already holds: it gives Ok(Some(0)),
\* nothing is displaced, and the leaf still holds the keys 0 .. 9.
C14_ScenarioUpdate ==
    /\ []ScenarioFillAndOverflow
    /\ [][ScenarioLastStep =>
            /\ ret' = InsertOk(Some(0))
            /\ get_ref(0)' = Some(0)
            /\ LeafOf(count', key', value') = InOrder(L_CAPACITY)
        ]_vars

\* Key 0 was inserted again into the leaf filled in order.
C14_Witness ==
    /\ InsertOfSame(call, 0)
    /\ old = InOrder(L_CAPACITY)
    /\ Cur = InOrder(L_CAPACITY)
    /\ ret.tag = "Ok"

----------------------------------------------------------------------------
\* Views of the two leaves and of their objects.

PeerLeaf == LeafOf(peer.count, peer.key, peer.value)

ObjsIn(c, kobj, vobj) == UNION {kobj[i] \cup vobj[i] : i \in 0..(c - 1)}
SelfObjs == ObjsIn(count, own.kobj, own.vobj)
PeerObjs == ObjsIn(peer.count, own.pkobj, own.pvobj)

\* C13: cloning a leaf yields a leaf with the same count and pairwise equal
\* keys and values in the live prefix, and leaves the cloned leaf as it was;
\* from then on no insert_or_update or remove call on one of the two leaves
\* changes the count, keys or values of the other, nor destroys or hands out
\* an object the other holds - whichever of the two the calls are made on.
C13_CloneIndependent ==
    /\ [](call.op = "clone" =>
            /\ peer.alive
            /\ peer.count = count
            /\ LiveSeq(PeerLeaf) = LiveSeq(Cur)
            /\ \A i \in Slots : i >= count =>
                  peer.key[i] = Uninit /\ peer.value[i] = Uninit
            /\ Cur = old
            /\ PeerObjs \cap SelfObjs = {})
    /\ [][(call'.op \in {"insert_or_update", "remove"}) =>
            /\ peer' = peer
            /\ own'.pkobj = own.pkobj
            /\ own'.pvobj = own.pvobj
            /\ \A o \in PeerObjs' :
                  own'.destroyed[o] = 0 /\ o \notin own'.returned
        ]_vars

\* A pair was removed from one of the two leaves after the clone was made;
\* the other leaf still holds it.
C13_Witness ==
    /\ peer.alive
    /\ IsRemove
    /\ ret.tag = "Ok"
    /\ ret.v # None
    /\ ArgK \in LiveKeys(PeerLeaf)
    /\ ArgK \notin LiveKeys(Cur)

\* How many places hold object o: slots of the live prefixes of the two
\* leaves, the caller (once handed out), and once per drop.
Places(o) ==
    Cardinality({i \in 0..(count - 1) : o \in own.kobj[i]})
    + Cardinality({i \in 0..(count - 1) : o \in own.vobj[i]})
    + Cardinality({i \in 0..(peer.count - 1) : o \in own.pkobj[i]})
    + Cardinality({i \in 0..(peer.count - 1) : o \in own.pvobj[i]})
    + (IF o \in own.returned THEN 1 ELSE 0)
    + own.destroyed[o]

\* C16: over every sequence of insert_or_update, remove, clone and drop
\* calls, every key object and value object ever handed to a leaf or made by
\* clone is in exactly one place: one live slot of one leaf, handed back to
\* the caller in an outcome, or destroyed exactly once.  A slot holds an
\* object exactly when it is initialised, so no slot at index >= count holds
\* one, and a dropped leaf leaves none of its objects behind.
C16_ExactlyOnePlace ==
    /\ \A o \in ObjIds :
          Places(o) = (IF o < own.next THEN 1 ELSE 0)
    /\ \A i \in Slots :
          /\ (own.kobj[i] # Uninit) = (i < count)
          /\ (own.vobj[i] # Uninit) = (i < count)
          /\ (own.kobj[i] # Uninit) = (key[i] # Uninit)
          /\ (own.vobj[i] # Uninit) = (value[i] # Uninit)
          /\ (own.pkobj[i] # Uninit) = (i < peer.count)
          /\ (own.pvobj[i] # Uninit) = (i < peer.count)
          /\ (own.pkobj[i] # Uninit) = (peer.key[i] # Uninit)
          /\ (own.pvobj[i] # Uninit) = (peer.value[i] # Uninit)
    /\ (~peer.alive) => PeerObjs = {}

\* A non-empty leaf was dropped while the other leaf holds objects, after
\* objects were handed back and destroyed by earlier calls.
C16_Witness ==
    /\ call.op = "drop"
    /\ old.count > 0
    /\ count > 0
    /\ own.returned # {}
    /\ \E o \in ObjIds : own.destroyed[o] = 1

====
